---- MODULE Spec2Model ----
(***************************************************************************)
(* Expense tracker (src/app.py): the per-user ledger, the monthly report   *)
(* files, the rollover marker and the Streamlit script run that mutates    *)
(* them.  Money amounts are non-negative integers (the floats the program  *)
(* holds are integer-valued within the bounds, so float arithmetic on them *)
(* is exact); a percentage is an exact fraction num/den.  The clock is     *)
(* modelled to the day: the hour and minute of a timestamp are left out.   *)
(* The chart images are written and never read back by the script: they    *)
(* are not part of the state.                                              *)
(***************************************************************************)
EXTENDS Integers, Sequences, FiniteSets, TLC

VARIABLES
    users,          \* the names in the users table
    csv,            \* user_data/: path -> ledger
    reset,          \* last_reset/: path -> month key
    reports,        \* monthly_reports/: path -> lines
    now,            \* the latest date the clock was read at
    session,        \* the name the last completed run rendered widgets for
    pc,             \* the position of the script run
    run,            \* the locals of the script run
    adds, updates,  \* how many expenses were added, budgets updated
    everBudget,     \* history: the users whose saved budget was ever > 0
    sinceRollover,  \* history: amounts added since the user's last rollover
    thisMonth,      \* history: amounts added in the month of the last add
    evalDf, evalOut \* a ledger under evaluation and what was derived

vars == <<users, csv, reset, reports, now, session, pc, run, adds, updates,
          everBudget, sinceRollover, thisMonth, evalDf, evalOut>>

history == <<everBudget, sinceRollover, thisMonth>>
evalVars == <<evalDf, evalOut>>

(***************************************************************************)
(* Bounds of the model.                                                    *)
(***************************************************************************)
MaxMonth == 1
MaxDay == 2
MaxAmount == 1
MaxBudget == 1
MaxCats == 1
MaxAdds == 2
MaxUpdates == 2
MaxEvalTotal == 2
MaxEvalBudget == 5

Names == {"a", "b"}
FirstDate == [year |-> 2025, month |-> 12, day |-> 1]

(***************************************************************************)
(* Calendar.                                                               *)
(***************************************************************************)
MonthName == <<"January", "February", "March", "April", "May", "June", "July",
               "August", "September", "October", "November", "December">>

IsLeap(y) == (y % 4 = 0 /\ y % 100 # 0) \/ y % 400 = 0

DaysInMonth(y, m) ==
    IF m = 2 THEN (IF IsLeap(y) THEN 29 ELSE 28)
    ELSE IF m \in {4, 6, 9, 11} THEN 30 ELSE 31

\* dt - timedelta(days=1)
MinusOneDay(dt) ==
    IF dt.day > 1 THEN [dt EXCEPT !.day = dt.day - 1]
    ELSE IF dt.month > 1
         THEN [year |-> dt.year, month |-> dt.month - 1,
               day |-> DaysInMonth(dt.year, dt.month - 1)]
         ELSE [year |-> dt.year - 1, month |-> 12, day |-> 31]

DateLE(a, b) ==
    \/ a.year < b.year
    \/ a.year = b.year /\ a.month < b.month
    \/ a.year = b.year /\ a.month = b.month /\ a.day <= b.day

MonthAt(i) ==
    [year |-> FirstDate.year + ((FirstDate.month - 1 + i) \div 12),
     month |-> ((FirstDate.month - 1 + i) % 12) + 1]

\* the dates current_india_dt() returns in the model
Dates == {[year |-> MonthAt(i).year, month |-> MonthAt(i).month, day |-> d] :
            i \in 0..MaxMonth, d \in 1..MaxDay}

\* dt.strftime("%Y-%m")
month_key(dt) == <<dt.year, dt.month>>

\* dt.strftime("%B_%Y")
month_label(dt) == <<MonthName[dt.month], dt.year>>

\* dt.strftime("%d-%m-%Y %H:%M"), to the day
Timestamp(dt) == <<dt.day, dt.month, dt.year>>

(***************************************************************************)
(* Paths.  A file exists iff its path is in the DOMAIN of its store.       *)
(***************************************************************************)
user_csv_path(name) == <<"user_data", name>>
reset_file_path(name) == <<"last_reset", name>>
report_file_path(name, dt) == <<name, month_label(dt)>>

WriteFile(store, path, content) ==
    [p \in DOMAIN store \cup {path} |-> IF p = path THEN content ELSE store[p]]

\* open(path, "a"): creates the file when it does not exist
AppendFile(store, path, lines) ==
    WriteFile(store, path,
              (IF path \in DOMAIN store THEN store[path] ELSE <<>>) \o lines)

(***************************************************************************)
(* Ledger (the DataFrame): a sequence of rows.                             *)
(***************************************************************************)
CategoryList == <<"Food", "Travel", "Loans", "Entertainment", "Shopping",
                  "Others", "Budget">>

DefaultDf == [i \in 1..7 |-> [Categories |-> CategoryList[i], Total |-> 0]]

load_user_data(name) ==
    IF user_csv_path(name) \in DOMAIN csv THEN csv[user_csv_path(name)]
    ELSE DefaultDf

save_user_data(store, name, df) == WriteFile(store, user_csv_path(name), df)

RECURSIVE SumTotal(_)
SumTotal(rows) ==
    IF rows = <<>> THEN 0 ELSE rows[1].Total + SumTotal(Tail(rows))

\* the Budget row not filtered out
IsExpense_All(r) == TRUE

IsExpense(r) == r.Categories # "Budget"
IsBudget(r) == r.Categories = "Budget"

\* float(df.loc[df["Categories"] == "Budget", "Total"].values[0])
BudgetOf(df) == SelectSeq(df, IsBudget)[1].Total

\* df.loc[df["Categories"] == which, "Total"] = value
SetTotal(df, which, value) ==
    [i \in DOMAIN df |->
        IF df[i].Categories = which THEN [df[i] EXCEPT !.Total = value]
        ELSE df[i]]

\* the amount added to every expense row
AddToCategory_AllRows(df, category, amount) ==
    [i \in DOMAIN df |->
        IF df[i].Categories # "Budget"
        THEN [df[i] EXCEPT !.Total = df[i].Total + amount]
        ELSE df[i]]

\* df.loc[df["Categories"] == category, "Total"] += amount
AddToCategory(df, category, amount) ==
    [i \in DOMAIN df |->
        IF df[i].Categories = category
        THEN [df[i] EXCEPT !.Total = df[i].Total + amount]
        ELSE df[i]]

\* the reset with its condition inverted
ResetExpenses_Inverted(df) ==
    [i \in DOMAIN df |->
        IF df[i].Categories = "Budget" THEN [df[i] EXCEPT !.Total = 0]
        ELSE df[i]]

\* the reset of every row
ResetExpenses_All(df) == [i \in DOMAIN df |-> [df[i] EXCEPT !.Total = 0]]

\* df.loc[df["Categories"] != "Budget", "Total"] = 0.0
ResetExpenses(df) ==
    [i \in DOMAIN df |->
        IF df[i].Categories # "Budget" THEN [df[i] EXCEPT !.Total = 0]
        ELSE df[i]]

(***************************************************************************)
(* Fractions and the ".2f" format (a value in hundredths, rounded).        *)
(***************************************************************************)
RECURSIVE GCD(_, _)
GCD(a, b) == IF b = 0 THEN a ELSE GCD(b, a % b)

Ratio(n, d) == [num |-> n \div GCD(n, d), den |-> d \div GCD(n, d)]

\* a threshold that is not inclusive
RatioGT(p, k) == p.num > k * p.den

RatioGE(p, k) == p.num >= k * p.den

Fmt2(n) == n * 100

\* f"{x:.2f}" of a fraction: nearest hundredth, an exact tie to the even one
Fmt2Ratio(p) ==
    LET q == (100 * p.num) \div p.den
        r == (100 * p.num) % p.den
    IN  IF 2 * r > p.den THEN q + 1
        ELSE IF 2 * r < p.den THEN q
        ELSE q + (q % 2)

(***************************************************************************)
(* Budget evaluation and the three places that derive a status from it.    *)
(***************************************************************************)
compute_budget_status(df) ==
    LET exp_df == SelectSeq(df, IsExpense)
        total_expenses == SumTotal(exp_df)
        budget_val == BudgetOf(df)
        remaining == budget_val - total_expenses
        percent_used == IF budget_val > 0
                        THEN Ratio(total_expenses * 100, budget_val)
                        ELSE Ratio(0, 1)
    IN  [budget_val |-> budget_val, total_expenses |-> total_expenses,
         remaining |-> remaining, percent_used |-> percent_used]

\* the message show_budget_summary ends with
show_budget_summary(df) ==
    LET s == compute_budget_status(df)
    IN  IF s.budget_val <= 0 THEN "No budget set"
        ELSE IF RatioGE(s.percent_used, 100) THEN "Budget exceeded"
        ELSE IF RatioGE(s.percent_used, 80) THEN "Budget usage >= 80%"
        ELSE "Within budget"

\* the alert the Add Expense branch raises after saving
add_expense_alert(df) ==
    LET s == compute_budget_status(df)
    IN  IF RatioGE(s.percent_used, 100) THEN "ALERT: Budget exceeded"
        ELSE IF RatioGE(s.percent_used, 80) THEN "WARNING: Budget used"
        ELSE "none"

\* the Status line finalize_month_report writes
finalize_status(s) ==
    IF RatioGE(s.percent_used, 100) THEN "Budget Exceeded"
    ELSE IF RatioGE(s.percent_used, 80) THEN "Close to Budget"
    ELSE "Within Budget"

(***************************************************************************)
(* Monthly report files: a sequence of lines.                              *)
(***************************************************************************)
TitleLine(name, dt) ==
    [line |-> "Expense Report for", name |-> name,
     month |-> <<MonthName[dt.month], dt.year>>]
BudgetLine(b) == [line |-> "Budget", amount |-> Fmt2(b)]
ColumnsLine == [line |-> "Timestamp | Category | Amount"]
ExpenseLine(dt, category, amount) ==
    [line |-> "expense", timestamp |-> Timestamp(dt), category |-> category,
     amount |-> amount]
BlankLine == [line |-> ""]
SummaryLine == [line |-> "---- Month End Summary ----"]

ReportHeader(name, b, dt) == <<TitleLine(name, dt), BudgetLine(b), ColumnsLine>>

SummaryBlock(s, dt) ==
    <<BlankLine, SummaryLine,
      [line |-> "Total Expenses", amount |-> Fmt2(s.total_expenses)],
      [line |-> "Remaining", amount |-> Fmt2(s.remaining)],
      [line |-> "Percent Used", amount |-> Fmt2Ratio(s.percent_used)],
      [line |-> "Status", status |-> finalize_status(s)],
      [line |-> "Closed on", date |-> Timestamp(dt)]>>

\* reads the ledger from the CSV store it is given
ensure_monthly_report_exists(reps, store, name, dt) ==
    LET rpt == report_file_path(name, dt)
        df == IF user_csv_path(name) \in DOMAIN store
              THEN store[user_csv_path(name)] ELSE DefaultDf
        budget_val == BudgetOf(df)
    IN  IF rpt \notin DOMAIN reps /\ budget_val > 0
        THEN WriteFile(reps, rpt, ReportHeader(name, budget_val, dt))
        ELSE reps

append_expense_to_report(reps, store, name, category, amount, dt) ==
    AppendFile(ensure_monthly_report_exists(reps, store, name, dt),
               report_file_path(name, dt),
               <<ExpenseLine(dt, category, amount)>>)

finalize_month_report(reps, name, df, dt) ==
    AppendFile(reps, report_file_path(name, dt),
               SummaryBlock(compute_budget_status(df), dt))

\* the Modify Budget branch's rewrite of an existing report
RewriteReportBudget(reps, name, new_budget_val, dt) ==
    LET rpt == report_file_path(name, dt)
    IN  IF rpt \in DOMAIN reps
        THEN LET old == reps[rpt]
             IN  WriteFile(reps, rpt,
                           <<TitleLine(name, dt), BudgetLine(new_budget_val)>>
                           \o (IF Len(old) > 2 THEN <<old[3]>> ELSE <<>>))
        ELSE reps

(***************************************************************************)
(* The script run (src/app.py, from the name input on).  One run is a      *)
(* sequence of steps; pc is the position of the run, run its locals,       *)
(* session the name the last completed run rendered its widgets for: a     *)
(* button can be pressed only if a run rendered it for the same name (a    *)
(* run that only changes the menu leaves the files as a run of the same    *)
(* date has them, so the menu of the pressing run is free).  A widget's    *)
(* value is drawn where the script reads it.  The buttons that only        *)
(* display (Show current data, Open Report, Download) act as a rerun       *)
(* without a button.                                                       *)
(***************************************************************************)
ExpenseCats == {CategoryList[i] : i \in 1..6}
CatChoices == {CategoryList[i] : i \in 1..MaxCats}

None == <<>>
ZeroSums == [c \in ExpenseCats |-> 0]

NoRun == [name |-> "", india_dt |-> FirstDate, is_new_user |-> FALSE,
          df |-> DefaultDf, last_saved_month |-> None, budget_val |-> 0]

NoEval == [site |-> "none"]

PersistedDf(store, name) ==
    IF user_csv_path(name) \in DOMAIN store THEN store[user_csv_path(name)]
    ELSE DefaultDf

InitRun ==
    /\ users = {}
    /\ csv = <<>>
    /\ reset = <<>>
    /\ reports = <<>>
    /\ now = FirstDate
    /\ session = ""
    /\ pc = "idle"
    /\ run = NoRun
    /\ adds = 0
    /\ updates = 0
    /\ everBudget = {}
    /\ sinceRollover = [n \in Names |-> ZeroSums]
    /\ thisMonth = [n \in Names |-> [mkey |-> None, sums |-> ZeroSums]]

Init ==
    /\ InitRun
    /\ evalDf = DefaultDf
    /\ evalOut = NoEval

\* the rollover not tied to the first day of the month
RolloverDue_AnyDay(last_saved_month, india_dt) ==
    last_saved_month # month_key(india_dt)

\* line 249
RolloverDue(last_saved_month, india_dt) ==
    last_saved_month # month_key(india_dt) /\ india_dt.day = 1

\* lines 225-249: the name is read, the user registered, the ledger and the
\* rollover marker loaded, the clock read, the month's report ensured and
\* the rollover decided
StartRun ==
    \E name \in Names, dt \in Dates :
        LET df == load_user_data(name)
            last_saved_month == IF reset_file_path(name) \in DOMAIN reset
                                THEN reset[reset_file_path(name)] ELSE None
            budget_val == BudgetOf(df)
        IN  /\ pc = "idle"
            /\ DateLE(now, dt)
            /\ users' = users \cup {name}
            /\ now' = dt
            /\ run' = [name |-> name, india_dt |-> dt,
                       is_new_user |-> name \notin users, df |-> df,
                       last_saved_month |-> last_saved_month,
                       budget_val |-> budget_val]
            /\ reports' = IF budget_val > 0
                          THEN ensure_monthly_report_exists(reports, csv,
                                                            name, dt)
                          ELSE reports
            /\ pc' = IF RolloverDue(last_saved_month, dt) THEN "finalize"
                     ELSE "ui"
            /\ UNCHANGED <<csv, reset, session, adds, updates, history,
                           evalVars>>

\* the summary closed with the date of the run
prev_last_day_Same(india_dt) == india_dt

\* lines 250-253: the date the rollover closes the previous month with
prev_last_day(india_dt) == MinusOneDay([india_dt EXCEPT !.day = 1])

\* lines 250-254
FinalizeMonth ==
    /\ pc = "finalize"
    /\ reports' = finalize_month_report(reports, run.name, run.df,
                                        prev_last_day(run.india_dt))
    /\ pc' = "reset"
    /\ UNCHANGED <<users, csv, reset, now, session, run, adds, updates,
                   history, evalVars>>

\* the marker written with the key of the month just closed
MarkerValue_Closed(india_dt) == month_key(prev_last_day(india_dt))

\* line 259: what the rollover writes to the marker file
MarkerValue(india_dt) == month_key(india_dt)

\* lines 256-260
ResetMonth ==
    /\ pc = "reset"
    /\ run' = [run EXCEPT !.df = ResetExpenses(run.df)]
    /\ csv' = save_user_data(csv, run.name, run'.df)
    /\ reset' = WriteFile(reset, reset_file_path(run.name),
                          MarkerValue(run.india_dt))
    /\ pc' = "ui"
    /\ sinceRollover' = [sinceRollover EXCEPT ![run.name] = ZeroSums]
    /\ UNCHANGED <<users, reports, now, session, adds, updates, everBudget,
                   thisMonth, evalVars>>

\* the script run ends, its widgets rendered
Finish ==
    /\ session' = run.name
    /\ pc' = "idle"
    /\ run' = NoRun
    /\ everBudget' = everBudget \cup
                     {n \in Names : BudgetOf(PersistedDf(csv', n)) > 0}
    /\ UNCHANGED <<users, reset, now, evalVars>>

\* the last run rendered its buttons for this name
Rendered == session = run.name

\* what a run of a menu branch can find pressed: its own button, or the
\* Save data now button below the menu (lines 373-375)
Presses(button) ==
    {"none"} \cup (IF Rendered THEN {button, "savenow"} ELSE {})

\* lines 373-375
SaveDataNow(press, store, df) ==
    IF press = "savenow" THEN save_user_data(store, run.name, df) ELSE store

\* lines 263-273
NewUserView ==
    /\ pc = "ui"
    /\ run.is_new_user /\ run.budget_val = 0
    /\ \E press \in {"none"} \cup
                    (IF Rendered THEN {"savebudget"} ELSE {}) :
          IF press = "savebudget"
          THEN \E new_budget \in 0..MaxBudget :
                  LET df == SetTotal(run.df, "Budget", new_budget)
                  IN  /\ csv' = save_user_data(csv, run.name, df)
                      /\ reports' = ensure_monthly_report_exists(
                                        reports, csv', run.name,
                                        run.india_dt)
          ELSE UNCHANGED <<csv, reports>>
    /\ UNCHANGED <<adds, updates, sinceRollover, thisMonth>>
    /\ Finish

\* line 275
ExistingUser == ~(run.is_new_user /\ run.budget_val = 0)

\* lines 282-284
ViewSummary ==
    /\ pc = "ui" /\ ExistingUser
    /\ \E press \in Presses("none") :
          csv' = SaveDataNow(press, csv, run.df)
    /\ UNCHANGED <<reports, adds, updates, sinceRollover, thisMonth>>
    /\ Finish

\* lines 286-307
AddExpense ==
    /\ pc = "ui" /\ ExistingUser
    /\ \E press \in Presses("add") :
          IF press = "add"
          THEN \E category \in CatChoices, amount \in 0..MaxAmount :
                  LET df == AddToCategory(run.df, category, amount)
                      saved == save_user_data(csv, run.name, df)
                      ensured == ensure_monthly_report_exists(
                                     reports, saved, run.name, run.india_dt)
                  IN  /\ adds < MaxAdds
                      /\ adds' = adds + 1
                      /\ csv' = saved
                      /\ reports' = append_expense_to_report(
                                        ensured, saved, run.name, category,
                                        amount, run.india_dt)
                      /\ sinceRollover' =
                             [sinceRollover EXCEPT ![run.name][category] =
                                  @ + amount]
                      /\ thisMonth' =
                             [thisMonth EXCEPT ![run.name] =
                                  IF @.mkey = month_key(run.india_dt)
                                  THEN [@ EXCEPT !.sums[category] =
                                            @ + amount]
                                  ELSE [mkey |-> month_key(run.india_dt),
                                        sums |-> [ZeroSums EXCEPT
                                                      ![category] = amount]]]
          ELSE /\ csv' = SaveDataNow(press, csv, run.df)
               /\ UNCHANGED <<reports, adds, sinceRollover, thisMonth>>
    /\ UNCHANGED updates
    /\ Finish

\* lines 309-326
ModifyBudget ==
    /\ pc = "ui" /\ ExistingUser
    /\ \E press \in Presses("update") :
          IF press = "update"
          THEN \E new_budget_val \in 0..MaxBudget :
                  LET df == SetTotal(run.df, "Budget", new_budget_val)
                  IN  /\ updates < MaxUpdates
                      /\ updates' = updates + 1
                      /\ csv' = save_user_data(csv, run.name, df)
                      /\ reports' = RewriteReportBudget(
                                        reports, run.name, new_budget_val,
                                        run.india_dt)
          ELSE /\ csv' = SaveDataNow(press, csv, run.df)
               /\ UNCHANGED <<reports, updates>>
    /\ UNCHANGED <<adds, sinceRollover, thisMonth>>
    /\ Finish

\* lines 328-345
ViewReports ==
    /\ pc = "ui" /\ ExistingUser
    /\ reports' = ensure_monthly_report_exists(reports, csv, run.name,
                                               run.india_dt)
    /\ \E press \in Presses("none") :
          csv' = SaveDataNow(press, csv, run.df)
    /\ UNCHANGED <<adds, updates, sinceRollover, thisMonth>>
    /\ Finish

\* lines 347-368
ViewCharts ==
    /\ pc = "ui" /\ ExistingUser
    /\ \E press \in Presses("none") :
          csv' = SaveDataNow(press, csv, run.df)
    /\ UNCHANGED <<reports, adds, updates, sinceRollover, thisMonth>>
    /\ Finish

Next ==
    \/ StartRun
    \/ FinalizeMonth
    \/ ResetMonth
    \/ NewUserView
    \/ ViewSummary
    \/ AddExpense
    \/ ModifyBudget
    \/ ViewReports
    \/ ViewCharts

Spec == Init /\ [][Next]_vars

(***************************************************************************)
(* The budget evaluation on its own: every ledger within the bounds, and   *)
(* the four places of the script that evaluate one.                        *)
(***************************************************************************)
EvalLedgers ==
    {[i \in 1..7 |-> [Categories |-> CategoryList[i],
                      Total |-> IF i = 7 THEN b ELSE t[i]]] :
        t \in [1..6 -> 0..MaxEvalTotal], b \in 0..MaxEvalBudget}

InitEval ==
    /\ InitRun
    /\ evalDf \in EvalLedgers
    /\ evalOut = NoEval

Derived(site, value) ==
    /\ evalOut' = [site |-> site, value |-> value]
    /\ UNCHANGED <<users, csv, reset, reports, now, session, pc, run, adds,
                   updates, history, evalDf>>

\* line 120, line 205, line 301
Evaluate == Derived("status", compute_budget_status(evalDf))

\* lines 119-133
ShowSummary == Derived("summary", show_budget_summary(evalDf))

\* lines 301-305
AddAlert == Derived("alert", add_expense_alert(evalDf))

\* lines 205-216
FinalizeStatus ==
    Derived("final", finalize_status(compute_budget_status(evalDf)))

NextEval ==
    \/ Evaluate
    \/ ShowSummary
    \/ AddAlert
    \/ FinalizeStatus

SpecEval == InitEval /\ [][NextEval]_vars

(***************************************************************************)
(* What the properties below are stated with.                              *)
(***************************************************************************)
TotalOf(df, c) == df[CHOOSE i \in DOMAIN df : df[i].Categories = c].Total

ExpenseSum(df) ==
    TotalOf(df, "Food") + TotalOf(df, "Travel") + TotalOf(df, "Loans")
    + TotalOf(df, "Entertainment") + TotalOf(df, "Shopping")
    + TotalOf(df, "Others")

MarkerIn(store, n) ==
    IF <<"last_reset", n>> \in DOMAIN store THEN store[<<"last_reset", n>>]
    ELSE None

SummaryCount(lines) ==
    Cardinality({i \in DOMAIN lines :
                    lines[i].line = "---- Month End Summary ----"})

CountIn(reps, p) == IF p \in DOMAIN reps THEN SummaryCount(reps[p]) ELSE 0

ContentIn(reps, p) == IF p \in DOMAIN reps THEN reps[p] ELSE <<>>

IsPrefix(s, t) == Len(s) <= Len(t) /\ SubSeq(t, 1, Len(s)) = s

IsExpenseLine(l) == l.line = "expense"

HasHeader(lines) ==
    /\ Len(lines) >= 3
    /\ lines[1].line = "Expense Report for"
    /\ lines[2].line = "Budget"
    /\ lines[3].line = "Timestamp | Category | Amount"

NoTotalDrops(n) ==
    \/ csv' = csv
    \/ \A c \in ExpenseCats :
           TotalOf(PersistedDf(csv', n), c) >= TotalOf(PersistedDf(csv, n), c)

\* the month before the month of the clock
PrevMonthLabel ==
    IF now.month = 1 THEN <<"December", now.year - 1>>
    ELSE <<MonthName[now.month - 1], now.year>>

Exceeded(df) ==
    TotalOf(df, "Budget") > 0 /\ ExpenseSum(df) >= TotalOf(df, "Budget")

NearLimit(df) ==
    /\ TotalOf(df, "Budget") > 0
    /\ 100 * ExpenseSum(df) >= 80 * TotalOf(df, "Budget")
    /\ ExpenseSum(df) < TotalOf(df, "Budget")

(***************************************************************************)
(* C1: a page load fires the rollover iff the day is 1 and the stored      *)
(* marker (none counts as different) is not the current month key; nothing *)
(* is reset on another day or outside the rollover; right after the        *)
(* rollover every non-Budget total saved is 0 and the marker is the        *)
(* current month key.                                                      *)
(***************************************************************************)
C1Step ==
    LET key == <<now.year, now.month>>
    IN  /\ (pc = "idle" /\ pc' # pc) =>
               LET due == /\ now'.day = 1
                          /\ MarkerIn(reset, run'.name)
                                 # <<now'.year, now'.month>>
               IN  /\ (pc' = "finalize") <=> due
                   /\ (pc' = "ui") <=> ~due
        /\ (pc' = "finalize" /\ pc' # pc) => pc = "idle"
        /\ (pc' = "reset" /\ pc' # pc) => pc = "finalize"
        /\ (pc = "finalize" /\ pc' # pc) => pc' = "reset"
        /\ (pc # "reset") =>
               /\ reset' = reset
               /\ \A n \in Names : NoTotalDrops(n)
        /\ (pc = "reset" /\ pc' # pc) =>
               /\ now.day = 1
               /\ pc' = "ui"
               /\ \A c \in ExpenseCats :
                      TotalOf(PersistedDf(csv', run.name), c) = 0
               /\ MarkerIn(reset', run.name) = key

C1_RolloverIffDue == [][C1Step]_vars

\* a rollover over a stale marker has just completed
C1_Witness ==
    /\ pc = "ui"
    /\ run.last_saved_month # None
    /\ run.last_saved_month # <<now.year, now.month>>
    /\ MarkerIn(reset, run.name) = <<now.year, now.month>>

(***************************************************************************)
(* C2: while the date has the month key the marker holds, no step appends  *)
(* a summary block or resets a total of that user; every report holds at   *)
(* most one Month End Summary block.                                       *)
(***************************************************************************)
C2Step ==
    \A n \in Names :
        MarkerIn(reset, n) = <<now'.year, now'.month>> =>
            /\ \/ reports' = reports
               \/ \A p \in DOMAIN reports' :
                      p[1] = n =>
                          SummaryCount(reports'[p]) <= CountIn(reports, p)
            /\ NoTotalDrops(n)

C2_RolloverOncePerMonth ==
    /\ [](\A p \in DOMAIN reports : SummaryCount(reports[p]) <= 1)
    /\ [][C2Step]_vars

\* a page load of the month a rollover already fired in, an expense added
\* since, the closed report holding its one summary
C2_Witness ==
    /\ pc = "ui"
    /\ run.last_saved_month = <<now.year, now.month>>
    /\ CountIn(reports, <<run.name, PrevMonthLabel>>) = 1
    /\ ExpenseSum(run.df) > 0

(***************************************************************************)
(* C3: an expense line once appended to a report stays in it, in the same  *)
(* order, whatever happens later.                                          *)
(***************************************************************************)
C3_ExpenseLinesKept ==
    [][\A p \in DOMAIN reports :
           /\ p \in DOMAIN reports'
           /\ IsPrefix(SelectSeq(reports[p], IsExpenseLine),
                       SelectSeq(reports'[p], IsExpenseLine))]_vars

(***************************************************************************)
(* C4: every report that exists begins with the header, and no report      *)
(* exists for a user whose budget has always been 0.                       *)
(***************************************************************************)
C4_ReportsBeginWithHeader ==
    \A p \in DOMAIN reports :
        /\ HasHeader(reports[p])
        /\ p[1] \in everBudget \/ BudgetOf(PersistedDf(csv, p[1])) > 0

(***************************************************************************)
(* C5 as claimed: once a page load has done its month handling, the        *)
(* user's ledger has one Budget row and each other total is the sum of     *)
(* the amounts added to it in the current calendar month.                  *)
(***************************************************************************)
LoadedUser == IF pc = "ui" THEN run.name ELSE session

AddedThisMonth(n, c) ==
    IF thisMonth[n].mkey = <<now.year, now.month>> THEN thisMonth[n].sums[c]
    ELSE 0

OneBudgetRow(df) ==
    Cardinality({i \in DOMAIN df : df[i].Categories = "Budget"}) = 1

C5_TotalsOfCurrentMonth ==
    (pc = "ui" \/ (pc = "idle" /\ session \in Names)) =>
        /\ OneBudgetRow(PersistedDf(csv, LoadedUser))
        /\ \A c \in ExpenseCats :
               TotalOf(PersistedDf(csv, LoadedUser), c)
                   = AddedThisMonth(LoadedUser, c)

(***************************************************************************)
(* C5 as amended: each ledger has one Budget row and each other total is   *)
(* the sum of the amounts added to it since the user's last rollover       *)
(* (since the ledger began when there was none).                           *)
(***************************************************************************)
C5_TotalsSinceRollover ==
    \A n \in Names :
        /\ OneBudgetRow(PersistedDf(csv, n))
        /\ \A c \in ExpenseCats :
               TotalOf(PersistedDf(csv, n), c) = sinceRollover[n][c]

\* a page load in a later month than the one the amounts were added in,
\* not on the 1st: the totals are carried over
C5_Witness ==
    /\ pc = "ui"
    /\ now.day # 1
    /\ thisMonth[run.name].mkey \notin {None, <<now.year, now.month>>}
    /\ ExpenseSum(PersistedDf(csv, run.name)) > 0

(***************************************************************************)
(* C6: the evaluation of a ledger gives the sum of the entries other than  *)
(* Budget, remaining = budget - total, and percent = total / budget * 100  *)
(* when budget > 0, else 0.                                                *)
(***************************************************************************)
C6_Evaluate ==
    evalOut.site = "status" =>
        LET v == evalOut.value
            b == TotalOf(evalDf, "Budget")
        IN  /\ v.budget_val = b
            /\ v.total_expenses = ExpenseSum(evalDf)
            /\ v.remaining = b - ExpenseSum(evalDf)
            /\ v.percent_used.den > 0
            /\ IF b > 0
               THEN v.percent_used.num * b
                        = 100 * ExpenseSum(evalDf) * v.percent_used.den
               ELSE v.percent_used.num = 0

\* expenses without a budget: remaining is negative, percent is 0
C6_Witness ==
    /\ evalOut.site = "status"
    /\ TotalOf(evalDf, "Budget") = 0
    /\ ExpenseSum(evalDf) > 0
    /\ evalOut.value.remaining < 0

(***************************************************************************)
(* C7: the summary, the Add Expense alert and the finalize block all give  *)
(* Exceeded iff percent >= 100, Near limit iff 80 <= percent < 100, and    *)
(* neither otherwise; never Exceeded or Near limit with a budget of 0.     *)
(***************************************************************************)
C7_StatusTiers ==
    /\ evalOut.site = "summary" =>
           /\ evalOut.value = "Budget exceeded" <=> Exceeded(evalDf)
           /\ evalOut.value = "Budget usage >= 80%" <=> NearLimit(evalDf)
           /\ evalOut.value = "No budget set" <=> TotalOf(evalDf, "Budget") = 0
    /\ evalOut.site = "alert" =>
           /\ evalOut.value = "ALERT: Budget exceeded" <=> Exceeded(evalDf)
           /\ evalOut.value = "WARNING: Budget used" <=> NearLimit(evalDf)
    /\ evalOut.site = "final" =>
           /\ evalOut.value = "Budget Exceeded" <=> Exceeded(evalDf)
           /\ evalOut.value = "Close to Budget" <=> NearLimit(evalDf)
           /\ evalOut.value = "Within Budget"
                  <=> ~Exceeded(evalDf) /\ ~NearLimit(evalDf)

\* exactly 80 percent used: the lower bound of the tier is inclusive
C7_Witness ==
    /\ evalOut.site = "final"
    /\ evalOut.value = "Close to Budget"
    /\ 100 * ExpenseSum(evalDf) = 80 * TotalOf(evalDf, "Budget")

(***************************************************************************)
(* C8: the saved Budget entry of a user changes only in that user's        *)
(* Modify Budget update or Set Budget save; a rollover keeps it.           *)
(***************************************************************************)
C8Step ==
    \A n \in Names :
        (/\ csv' # csv
         /\ TotalOf(PersistedDf(csv', n), "Budget")
                # TotalOf(PersistedDf(csv, n), "Budget")) =>
            /\ pc = "ui"
            /\ run.name = n
            /\ pc' = "idle"
            /\ \/ updates' = updates + 1
               \/ run.is_new_user /\ run.budget_val = 0

C8_BudgetChangesOnlyByUpdate == [][C8Step]_vars

\* a rollover has just reset the expenses of a ledger with a budget
C8_Witness ==
    /\ pc = "ui"
    /\ run.last_saved_month # <<now.year, now.month>>
    /\ MarkerIn(reset, run.name) = <<now.year, now.month>>
    /\ run.budget_val > 0
    /\ TotalOf(PersistedDf(csv, run.name), "Budget") = run.budget_val
    /\ sinceRollover[run.name] = ZeroSums
    /\ thisMonth[run.name].mkey # None

(***************************************************************************)
(* C9: the rollover appends the summary block to the previous month's      *)
(* report and to no other, with the figures of the ledger as saved before  *)
(* the reset; the reset comes after it.                                    *)
(***************************************************************************)
SummaryOf(df, block) ==
    LET b == TotalOf(df, "Budget")
        t == ExpenseSum(df)
        d == block[5].amount * b - 10000 * t
    IN  /\ block[1].line = ""
        /\ block[2].line = "---- Month End Summary ----"
        /\ block[3].line = "Total Expenses" /\ block[3].amount = 100 * t
        /\ block[4].line = "Remaining" /\ block[4].amount = 100 * (b - t)
        /\ block[5].line = "Percent Used"
        /\ IF b > 0 THEN 2 * d <= b /\ 2 * d >= 0 - b
           ELSE block[5].amount = 0
        /\ block[6].line = "Status"
        /\ block[6].status = (IF Exceeded(df) THEN "Budget Exceeded"
                              ELSE IF NearLimit(df) THEN "Close to Budget"
                              ELSE "Within Budget")
        /\ block[7].line = "Closed on"
        /\ block[7].date[2] = (IF now.month = 1 THEN 12 ELSE now.month - 1)

C9Step ==
    LET p == <<run.name, PrevMonthLabel>>
        old == ContentIn(reports, p)
        new == ContentIn(reports', p)
    IN  /\ (pc = "finalize" /\ pc' # pc) =>
               /\ pc' = "reset"
               /\ csv' = csv
               /\ DOMAIN reports' = DOMAIN reports \cup {p}
               /\ \A q \in DOMAIN reports : q # p => reports'[q] = reports[q]
               /\ Len(new) = Len(old) + 7
               /\ IsPrefix(old, new)
               /\ SummaryOf(PersistedDf(csv, run.name),
                            SubSeq(new, Len(old) + 1, Len(new)))
        /\ (pc = "reset" /\ pc' # pc) =>
               /\ reports' = reports
               /\ Len(old) >= 7
               /\ SummaryOf(PersistedDf(csv, run.name),
                            SubSeq(old, Len(old) - 6, Len(old)))
        /\ (pc' = "reset" /\ pc' # pc) => pc = "finalize"

C9_SummaryBeforeReset == [][C9Step]_vars

\* the summary of a ledger with expenses and a budget is written, the
\* reset still to come
C9_Witness ==
    /\ pc = "reset"
    /\ ExpenseSum(PersistedDf(csv, run.name)) > 0
    /\ TotalOf(PersistedDf(csv, run.name), "Budget") > 0
    /\ CountIn(reports, <<run.name, PrevMonthLabel>>) = 1
    /\ <<run.name, <<MonthName[now.month], now.year>>>> \in DOMAIN reports

(***************************************************************************)
(* C10: adding an expense of amount a to category c raises the saved total *)
(* of c by a, changes no other entry and no other user's ledger, and       *)
(* appends one line (timestamp, c, a) to the user's report of the current  *)
(* month and changes no other report.                                      *)
(***************************************************************************)
C10Step ==
    adds' = adds + 1 =>
        LET n == run.name
            p == <<n, <<MonthName[now.month], now.year>>>>
            old == ContentIn(reports, p)
            new == ContentIn(reports', p)
            l == new[Len(new)]
            before == PersistedDf(csv, n)
            after == PersistedDf(csv', n)
        IN  /\ Len(new) = Len(old) + 1
            /\ IsPrefix(old, new)
            /\ l.line = "expense"
            /\ l.timestamp = <<now.day, now.month, now.year>>
            /\ l.category \in ExpenseCats
            /\ l.amount >= 0
            /\ sinceRollover' = [sinceRollover EXCEPT ![n][l.category] =
                                     @ + l.amount]
            /\ \A c \in ExpenseCats \cup {"Budget"} :
                   TotalOf(after, c) = TotalOf(before, c)
                       + (IF c = l.category THEN l.amount ELSE 0)
            /\ Len(after) = Len(before)
            /\ DOMAIN reports' = DOMAIN reports \cup {p}
            /\ \A q \in DOMAIN reports : q # p => reports'[q] = reports[q]
            /\ DOMAIN csv' = DOMAIN csv \cup {<<"user_data", n>>}
            /\ \A q \in DOMAIN csv : q[2] # n => csv'[q] = csv[q]

C10_AddExpenseEffect == [][C10Step]_vars

\* a positive expense has been added to a report that held one already,
\* while another user has a ledger
C10_Witness ==
    /\ pc = "idle"
    /\ adds = 2
    /\ \E m \in Names \ {session} : <<"user_data", m>> \in DOMAIN csv
    /\ LET p == <<session, <<MonthName[now.month], now.year>>>>
       IN  /\ p \in DOMAIN reports
           /\ Len(SelectSeq(reports[p], IsExpenseLine)) = 2
           /\ reports[p][Len(reports[p])].line = "expense"
           /\ reports[p][Len(reports[p])].amount > 0
           /\ reports[p][Len(reports[p])].timestamp
                  = <<now.day, now.month, now.year>>

====
